---- MODULE Spec2Model ----
(***************************************************************************)
(* Model of flytekit/clis/sdk_in_container/register.py: the `run` click    *)
(* command (script mode) and its helpers _load_naive_entity and            *)
(* _parse_workflow_inputs.                                                 *)
(*                                                                         *)
(* Python strings are sequences of one-character strings, so that          *)
(* str.split, the [2:] slice, os.path.splitext and int() are computed      *)
(* character by character.  A character that a TLA+ string cannot carry   *)
(* is written as the name of its code point, e.g. "U+000B", "U+0663".      *)
(* Every call to a collaborator (module loader,   *)
(* remote client, file access, script hashing, FlyteRemote, printing) is   *)
(* appended to the history variable `calls` as                             *)
(*     <<operation, pair number (0 outside the input loop), arguments>>.   *)
(* A collaborator may return or raise; both outcomes are explored.         *)
(***************************************************************************)
EXTENDS Integers, Sequences, FiniteSets, TLC

\* Longest click_ctx.args list explored.
MaxTokens == 4

(***************************************************************************)
(* String helpers.                                                         *)
(***************************************************************************)
\* The decimal digits int() accepts (Unicode category Nd, 66 scripts), as
\* rows from the digit zero to the digit nine: ASCII, Arabic-Indic
\* (U+0660..), ..., Fullwidth (U+FF10..), ..., up to U+1FBF0...
DigitRows ==
    {
      <<"0", "1", "2", "3", "4",
        "5", "6", "7", "8", "9">>,
      <<"U+0660", "U+0661", "U+0662", "U+0663", "U+0664",
        "U+0665", "U+0666", "U+0667", "U+0668", "U+0669">>,
      <<"U+06F0", "U+06F1", "U+06F2", "U+06F3", "U+06F4",
        "U+06F5", "U+06F6", "U+06F7", "U+06F8", "U+06F9">>,
      <<"U+07C0", "U+07C1", "U+07C2", "U+07C3", "U+07C4",
        "U+07C5", "U+07C6", "U+07C7", "U+07C8", "U+07C9">>,
      <<"U+0966", "U+0967", "U+0968", "U+0969", "U+096A",
        "U+096B", "U+096C", "U+096D", "U+096E", "U+096F">>,
      <<"U+09E6", "U+09E7", "U+09E8", "U+09E9", "U+09EA",
        "U+09EB", "U+09EC", "U+09ED", "U+09EE", "U+09EF">>,
      <<"U+0A66", "U+0A67", "U+0A68", "U+0A69", "U+0A6A",
        "U+0A6B", "U+0A6C", "U+0A6D", "U+0A6E", "U+0A6F">>,
      <<"U+0AE6", "U+0AE7", "U+0AE8", "U+0AE9", "U+0AEA",
        "U+0AEB", "U+0AEC", "U+0AED", "U+0AEE", "U+0AEF">>,
      <<"U+0B66", "U+0B67", "U+0B68", "U+0B69", "U+0B6A",
        "U+0B6B", "U+0B6C", "U+0B6D", "U+0B6E", "U+0B6F">>,
      <<"U+0BE6", "U+0BE7", "U+0BE8", "U+0BE9", "U+0BEA",
        "U+0BEB", "U+0BEC", "U+0BED", "U+0BEE", "U+0BEF">>,
      <<"U+0C66", "U+0C67", "U+0C68", "U+0C69", "U+0C6A",
        "U+0C6B", "U+0C6C", "U+0C6D", "U+0C6E", "U+0C6F">>,
      <<"U+0CE6", "U+0CE7", "U+0CE8", "U+0CE9", "U+0CEA",
        "U+0CEB", "U+0CEC", "U+0CED", "U+0CEE", "U+0CEF">>,
      <<"U+0D66", "U+0D67", "U+0D68", "U+0D69", "U+0D6A",
        "U+0D6B", "U+0D6C", "U+0D6D", "U+0D6E", "U+0D6F">>,
      <<"U+0DE6", "U+0DE7", "U+0DE8", "U+0DE9", "U+0DEA",
        "U+0DEB", "U+0DEC", "U+0DED", "U+0DEE", "U+0DEF">>,
      <<"U+0E50", "U+0E51", "U+0E52", "U+0E53", "U+0E54",
        "U+0E55", "U+0E56", "U+0E57", "U+0E58", "U+0E59">>,
      <<"U+0ED0", "U+0ED1", "U+0ED2", "U+0ED3", "U+0ED4",
        "U+0ED5", "U+0ED6", "U+0ED7", "U+0ED8", "U+0ED9">>,
      <<"U+0F20", "U+0F21", "U+0F22", "U+0F23", "U+0F24",
        "U+0F25", "U+0F26", "U+0F27", "U+0F28", "U+0F29">>,
      <<"U+1040", "U+1041", "U+1042", "U+1043", "U+1044",
        "U+1045", "U+1046", "U+1047", "U+1048", "U+1049">>,
      <<"U+1090", "U+1091", "U+1092", "U+1093", "U+1094",
        "U+1095", "U+1096", "U+1097", "U+1098", "U+1099">>,
      <<"U+17E0", "U+17E1", "U+17E2", "U+17E3", "U+17E4",
        "U+17E5", "U+17E6", "U+17E7", "U+17E8", "U+17E9">>,
      <<"U+1810", "U+1811", "U+1812", "U+1813", "U+1814",
        "U+1815", "U+1816", "U+1817", "U+1818", "U+1819">>,
      <<"U+1946", "U+1947", "U+1948", "U+1949", "U+194A",
        "U+194B", "U+194C", "U+194D", "U+194E", "U+194F">>,
      <<"U+19D0", "U+19D1", "U+19D2", "U+19D3", "U+19D4",
        "U+19D5", "U+19D6", "U+19D7", "U+19D8", "U+19D9">>,
      <<"U+1A80", "U+1A81", "U+1A82", "U+1A83", "U+1A84",
        "U+1A85", "U+1A86", "U+1A87", "U+1A88", "U+1A89">>,
      <<"U+1A90", "U+1A91", "U+1A92", "U+1A93", "U+1A94",
        "U+1A95", "U+1A96", "U+1A97", "U+1A98", "U+1A99">>,
      <<"U+1B50", "U+1B51", "U+1B52", "U+1B53", "U+1B54",
        "U+1B55", "U+1B56", "U+1B57", "U+1B58", "U+1B59">>,
      <<"U+1BB0", "U+1BB1", "U+1BB2", "U+1BB3", "U+1BB4",
        "U+1BB5", "U+1BB6", "U+1BB7", "U+1BB8", "U+1BB9">>,
      <<"U+1C40", "U+1C41", "U+1C42", "U+1C43", "U+1C44",
        "U+1C45", "U+1C46", "U+1C47", "U+1C48", "U+1C49">>,
      <<"U+1C50", "U+1C51", "U+1C52", "U+1C53", "U+1C54",
        "U+1C55", "U+1C56", "U+1C57", "U+1C58", "U+1C59">>,
      <<"U+A620", "U+A621", "U+A622", "U+A623", "U+A624",
        "U+A625", "U+A626", "U+A627", "U+A628", "U+A629">>,
      <<"U+A8D0", "U+A8D1", "U+A8D2", "U+A8D3", "U+A8D4",
        "U+A8D5", "U+A8D6", "U+A8D7", "U+A8D8", "U+A8D9">>,
      <<"U+A900", "U+A901", "U+A902", "U+A903", "U+A904",
        "U+A905", "U+A906", "U+A907", "U+A908", "U+A909">>,
      <<"U+A9D0", "U+A9D1", "U+A9D2", "U+A9D3", "U+A9D4",
        "U+A9D5", "U+A9D6", "U+A9D7", "U+A9D8", "U+A9D9">>,
      <<"U+A9F0", "U+A9F1", "U+A9F2", "U+A9F3", "U+A9F4",
        "U+A9F5", "U+A9F6", "U+A9F7", "U+A9F8", "U+A9F9">>,
      <<"U+AA50", "U+AA51", "U+AA52", "U+AA53", "U+AA54",
        "U+AA55", "U+AA56", "U+AA57", "U+AA58", "U+AA59">>,
      <<"U+ABF0", "U+ABF1", "U+ABF2", "U+ABF3", "U+ABF4",
        "U+ABF5", "U+ABF6", "U+ABF7", "U+ABF8", "U+ABF9">>,
      <<"U+FF10", "U+FF11", "U+FF12", "U+FF13", "U+FF14",
        "U+FF15", "U+FF16", "U+FF17", "U+FF18", "U+FF19">>,
      <<"U+104A0", "U+104A1", "U+104A2", "U+104A3", "U+104A4",
        "U+104A5", "U+104A6", "U+104A7", "U+104A8", "U+104A9">>,
      <<"U+10D30", "U+10D31", "U+10D32", "U+10D33", "U+10D34",
        "U+10D35", "U+10D36", "U+10D37", "U+10D38", "U+10D39">>,
      <<"U+11066", "U+11067", "U+11068", "U+11069", "U+1106A",
        "U+1106B", "U+1106C", "U+1106D", "U+1106E", "U+1106F">>,
      <<"U+110F0", "U+110F1", "U+110F2", "U+110F3", "U+110F4",
        "U+110F5", "U+110F6", "U+110F7", "U+110F8", "U+110F9">>,
      <<"U+11136", "U+11137", "U+11138", "U+11139", "U+1113A",
        "U+1113B", "U+1113C", "U+1113D", "U+1113E", "U+1113F">>,
      <<"U+111D0", "U+111D1", "U+111D2", "U+111D3", "U+111D4",
        "U+111D5", "U+111D6", "U+111D7", "U+111D8", "U+111D9">>,
      <<"U+112F0", "U+112F1", "U+112F2", "U+112F3", "U+112F4",
        "U+112F5", "U+112F6", "U+112F7", "U+112F8", "U+112F9">>,
      <<"U+11450", "U+11451", "U+11452", "U+11453", "U+11454",
        "U+11455", "U+11456", "U+11457", "U+11458", "U+11459">>,
      <<"U+114D0", "U+114D1", "U+114D2", "U+114D3", "U+114D4",
        "U+114D5", "U+114D6", "U+114D7", "U+114D8", "U+114D9">>,
      <<"U+11650", "U+11651", "U+11652", "U+11653", "U+11654",
        "U+11655", "U+11656", "U+11657", "U+11658", "U+11659">>,
      <<"U+116C0", "U+116C1", "U+116C2", "U+116C3", "U+116C4",
        "U+116C5", "U+116C6", "U+116C7", "U+116C8", "U+116C9">>,
      <<"U+11730", "U+11731", "U+11732", "U+11733", "U+11734",
        "U+11735", "U+11736", "U+11737", "U+11738", "U+11739">>,
      <<"U+118E0", "U+118E1", "U+118E2", "U+118E3", "U+118E4",
        "U+118E5", "U+118E6", "U+118E7", "U+118E8", "U+118E9">>,
      <<"U+11950", "U+11951", "U+11952", "U+11953", "U+11954",
        "U+11955", "U+11956", "U+11957", "U+11958", "U+11959">>,
      <<"U+11C50", "U+11C51", "U+11C52", "U+11C53", "U+11C54",
        "U+11C55", "U+11C56", "U+11C57", "U+11C58", "U+11C59">>,
      <<"U+11D50", "U+11D51", "U+11D52", "U+11D53", "U+11D54",
        "U+11D55", "U+11D56", "U+11D57", "U+11D58", "U+11D59">>,
      <<"U+11DA0", "U+11DA1", "U+11DA2", "U+11DA3", "U+11DA4",
        "U+11DA5", "U+11DA6", "U+11DA7", "U+11DA8", "U+11DA9">>,
      <<"U+16A60", "U+16A61", "U+16A62", "U+16A63", "U+16A64",
        "U+16A65", "U+16A66", "U+16A67", "U+16A68", "U+16A69">>,
      <<"U+16AC0", "U+16AC1", "U+16AC2", "U+16AC3", "U+16AC4",
        "U+16AC5", "U+16AC6", "U+16AC7", "U+16AC8", "U+16AC9">>,
      <<"U+16B50", "U+16B51", "U+16B52", "U+16B53", "U+16B54",
        "U+16B55", "U+16B56", "U+16B57", "U+16B58", "U+16B59">>,
      <<"U+1D7CE", "U+1D7CF", "U+1D7D0", "U+1D7D1", "U+1D7D2",
        "U+1D7D3", "U+1D7D4", "U+1D7D5", "U+1D7D6", "U+1D7D7">>,
      <<"U+1D7D8", "U+1D7D9", "U+1D7DA", "U+1D7DB", "U+1D7DC",
        "U+1D7DD", "U+1D7DE", "U+1D7DF", "U+1D7E0", "U+1D7E1">>,
      <<"U+1D7E2", "U+1D7E3", "U+1D7E4", "U+1D7E5", "U+1D7E6",
        "U+1D7E7", "U+1D7E8", "U+1D7E9", "U+1D7EA", "U+1D7EB">>,
      <<"U+1D7EC", "U+1D7ED", "U+1D7EE", "U+1D7EF", "U+1D7F0",
        "U+1D7F1", "U+1D7F2", "U+1D7F3", "U+1D7F4", "U+1D7F5">>,
      <<"U+1D7F6", "U+1D7F7", "U+1D7F8", "U+1D7F9", "U+1D7FA",
        "U+1D7FB", "U+1D7FC", "U+1D7FD", "U+1D7FE", "U+1D7FF">>,
      <<"U+1E140", "U+1E141", "U+1E142", "U+1E143", "U+1E144",
        "U+1E145", "U+1E146", "U+1E147", "U+1E148", "U+1E149">>,
      <<"U+1E2F0", "U+1E2F1", "U+1E2F2", "U+1E2F3", "U+1E2F4",
        "U+1E2F5", "U+1E2F6", "U+1E2F7", "U+1E2F8", "U+1E2F9">>,
      <<"U+1E950", "U+1E951", "U+1E952", "U+1E953", "U+1E954",
        "U+1E955", "U+1E956", "U+1E957", "U+1E958", "U+1E959">>,
      <<"U+1FBF0", "U+1FBF1", "U+1FBF2", "U+1FBF3", "U+1FBF4",
        "U+1FBF5", "U+1FBF6", "U+1FBF7", "U+1FBF8", "U+1FBF9">> }

Digits == UNION { {row[k] : k \in 1..10} : row \in DigitRows }

\* The value of a decimal digit: its place in its row.
DigitVal(c) ==
    LET row == CHOOSE r \in DigitRows : \E k \in 1..10 : r[k] = c
    IN  (CHOOSE k \in 1..10 : row[k] = c) - 1

\* The characters int() skips at both ends of its argument: tab, newline,
\* vertical tab, form feed, carriage return, blank, and the non-ASCII
\* characters for which str.isspace holds.  (The ASCII separators
\* U+001C..U+001F are whitespace for str.isspace but not for int().)
Whitespace ==
    { "\t", "\n", "U+000B", "\f", "\r", " ", "U+0085", "U+00A0", "U+1680", "U+2000", "U+2001",
      "U+2002", "U+2003", "U+2004", "U+2005", "U+2006", "U+2007", "U+2008",
      "U+2009", "U+200A", "U+2028", "U+2029", "U+202F", "U+205F", "U+3000" }

\* s[n:] of Python: drops the first n characters, the empty string when
\* s is shorter than n.
Slice(s, n) == SubSeq(s, n + 1, Len(s))

\* str.split(sep) for a one-character separator: the list of the parts
\* between the separators (always one more part than separators).
RECURSIVE Split(_, _)
Split(s, sep) ==
    IF \A k \in 1..Len(s) : s[k] # sep
    THEN <<s>>
    ELSE LET k == CHOOSE j \in 1..Len(s) :
                      s[j] = sep /\ \A m \in 1..(j - 1) : s[m] # sep
         IN  <<SubSeq(s, 1, k - 1)>> \o Split(Slice(s, k), sep)

\* str.rfind(c) as a 1-based position, 0 when c does not occur.
RFind(s, c) ==
    IF \E k \in 1..Len(s) : s[k] = c
    THEN CHOOSE k \in 1..Len(s) : s[k] = c /\ \A m \in (k + 1)..Len(s) : s[m] # c
    ELSE 0

\* os.path.splitext(p)[0]: p without its extension.  The extension starts
\* at the last dot after the last separator, unless only dots precede it
\* in the file name.
SplitextRoot(p) ==
    LET sepIndex == RFind(p, "/")
        dotIndex == RFind(p, ".")
    IN  IF dotIndex > sepIndex
           /\ \E k \in (sepIndex + 1)..(dotIndex - 1) : p[k] # "."
        THEN SubSeq(p, 1, dotIndex - 1)
        ELSE p

\* str.replace(os.path.sep, ".")
ReplaceSep(s) == [k \in 1..Len(s) |-> IF s[k] = "/" THEN "." ELSE s[k]]

\* The module name computed on line 86.
ModuleName(filename) == ReplaceSep(SplitextRoot(filename))

\* s without the whitespace int() skips at its ends.
RECURSIVE Strip(_)
Strip(s) ==
    IF s = <<>> THEN s
    ELSE IF Head(s) \in Whitespace THEN Strip(Tail(s))
    ELSE IF s[Len(s)] \in Whitespace THEN Strip(SubSeq(s, 1, Len(s) - 1))
    ELSE s

\* The digits-and-underscores part of a Python integer literal: it starts
\* and ends with a digit and every underscore stands between two digits.
IsDigitString(d) ==
    /\ Len(d) > 0
    /\ \A k \in 1..Len(d) : d[k] \in Digits \cup {"_"}
    /\ d[1] \in Digits
    /\ d[Len(d)] \in Digits
    /\ \A k \in 1..(Len(d) - 1) : ~(d[k] = "_" /\ d[k + 1] = "_")

HasSign(s) == Len(s) > 0 /\ s[1] \in {"+", "-"}

Unsigned(s) == IF HasSign(s) THEN Tail(s) ELSE s

\* sys.get_int_max_str_digits(): int() refuses a string with more digits.
MaxStrDigits == 4300

\* The number of digits of a digit string, underscores not counted.
DigitCount(d) == Cardinality({k \in 1..Len(d) : d[k] # "_"})

\* s has the form of a base-10 integer literal: optional whitespace, an
\* optional sign, a digit string, optional whitespace.
IsIntSyntax(s) == IsDigitString(Unsigned(Strip(s)))

\* TRUE iff int(s) returns.
IsIntLiteral(s) ==
    /\ IsIntSyntax(s)
    /\ DigitCount(Unsigned(Strip(s))) <= MaxStrDigits

\* The digits and underscores int() scans before it looks at what follows:
\* the longest prefix of d made of digits and underscores.
DigitRun(d) ==
    LET n == CHOOSE m \in 0..Len(d) :
                 /\ \A k \in 1..m : d[k] \in Digits \cup {"_"}
                 /\ m = Len(d) \/ d[m + 1] \notin Digits \cup {"_"}
    IN  SubSeq(d, 1, n)

\* TRUE iff int(s) raises "Exceeds the limit (4300 digits) for integer
\* string conversion": the scanned run is well formed and has too many
\* digits, whatever follows it.  Every other failure is "invalid literal".
ExceedsLimit(s) ==
    LET run == DigitRun(Unsigned(Strip(s)))
    IN  /\ IsDigitString(run)
        /\ DigitCount(run) > MaxStrDigits

RECURSIVE DigitsValue(_)
DigitsValue(d) ==
    IF d = <<>> THEN 0
    ELSE IF d[Len(d)] = "_" THEN DigitsValue(SubSeq(d, 1, Len(d) - 1))
    ELSE 10 * DigitsValue(SubSeq(d, 1, Len(d) - 1)) + DigitVal(d[Len(d)])

\* int(s) for a string that IsIntLiteral accepts.
IntOf(s) ==
    LET t == Strip(s)
    IN  IF HasSign(t) /\ t[1] = "-"
        THEN 0 - DigitsValue(Unsigned(t))
        ELSE DigitsValue(Unsigned(t))

(***************************************************************************)
(* Inputs of one invocation of the command.                                *)
(***************************************************************************)
\* Defaults of -p/--project and -d/--domain (lines 39 and 46).
DefaultProject == "flytesnacks"
DefaultDomain == "development"

\* Positional arguments explored: "s.py:wf", "d/s.py:w", "a:b:c", "nc".
PositionalArguments ==
    { <<"s", ".", "p", "y", ":", "w", "f">>,
      <<"d", "/", "s", ".", "p", "y", ":", "w">>,
      <<"a", ":", "b", ":", "c">>,
      <<"n", "c">> }

Projects == {DefaultProject, "myproject"}
Domains == {DefaultDomain, "production"}

\* Extra command-line tokens: flags "--a", "--n", "--df", "--f", "--z" and
\* raw values "x", "42", "-1_0", "4x".
Flags ==
    { <<"-", "-", "a">>, <<"-", "-", "n">>, <<"-", "-", "d", "f">>,
      <<"-", "-", "f">>, <<"-", "-", "z">> }

RawValues ==
    { <<"x">>, <<"4", "2">>, <<"-", "1", "_", "0">>, <<"4", "x">> }

\* click_ctx.args: flags alternate with raw values; an odd length leaves a
\* dangling flag.
TokenLists ==
    UNION { { t \in [1..n -> Flags \cup RawValues] :
                \A k \in 1..n : IF k % 2 = 1 THEN t[k] \in Flags
                                             ELSE t[k] \in RawValues }
            : n \in 0..MaxTokens }

\* wf_entity.interface.inputs seen through TypeEngine.guess_python_type:
\* input name -> Python type.  "z" is not declared.
wf_inputs ==
    (<<"a">> :> "str") @@ (<<"n">> :> "int")
        @@ (<<"d", "f">> :> "StructuredDataset") @@ (<<"f">> :> "float")

(***************************************************************************)
(* State.                                                                  *)
(***************************************************************************)
VARIABLES
    file_and_workflow,   \* positional argument
    remote,              \* --remote
    project,             \* -p/--project
    domain,              \* -d/--domain
    ctx_args,            \* click_ctx.args
    pc,                  \* position in run
    filename,            \* run: filename
    workflow_name,       \* run: workflow_name
    i,                   \* _parse_workflow_inputs: loop index (0-based)
    args,                \* _parse_workflow_inputs: args
    df_remote_location,  \* _parse_workflow_inputs: df_remote_location
    inputs,              \* run: inputs (<<"none">> until resolution returns)
    version,             \* run: version
    upload_location,     \* run: upload_location
    wf,                  \* run: wf
    execution,           \* run: execution
    calls,               \* history of collaborator calls
    error                \* the exception that ended the command

vars == << file_and_workflow, remote, project, domain, ctx_args, pc, filename,
           workflow_name, i, args, df_remote_location, inputs, version,
           upload_location, wf, execution, calls, error >>

cli == << file_and_workflow, remote, project, domain, ctx_args >>

EmptyMap == [k \in {} |-> <<>>]
NoLocation == [native_url |-> <<>>, signed_url |-> <<>>]
NoError == <<"none", 0, <<>>>>
NoSuffix == <<>>

\* Fault-injected variant of DictPut: an existing key keeps its value
\* (dict.setdefault instead of assignment).
DictPut_KeepsFirst(d, key, value) == d @@ (key :> value)

\* d[key] = value of a Python dict.
DictPut(d, key, value) == (key :> value) @@ d

\* The descriptor the n-th successful or failed request returns: a pair of
\* an internal (native) URI and an externally writable signed URI.
UploadLocation(n) ==
    [native_url |-> <<"native_url", ToString(n)>>,
     signed_url |-> <<"signed_url", ToString(n)>>]

IsCall(c, op) == c[1] = op

CallCount(op) == Cardinality({k \in 1..Len(calls) : IsCall(calls[k], op)})

\* 1-based number of the token pair the loop is at.
Pair == (i \div 2) + 1

\* Lines 145 and 146.
Argument == Slice(ctx_args[i + 1], 2)
Value == ctx_args[i + 2]

\* wf_entity as loaded by _load_naive_entity.
WfEntity == <<"entity", ModuleName(filename), workflow_name>>

Init ==
    /\ file_and_workflow \in PositionalArguments
    /\ remote \in BOOLEAN
    /\ project \in Projects
    /\ domain \in Domains
    /\ ctx_args \in TokenLists
    /\ pc = "start"
    /\ filename = <<>>
    /\ workflow_name = <<>>
    /\ i = 0
    /\ args = EmptyMap
    /\ df_remote_location = NoLocation
    /\ inputs = <<"none">>
    /\ version = <<>>
    /\ upload_location = NoLocation
    /\ wf = <<>>
    /\ execution = <<>>
    /\ calls = <<>>
    /\ error = NoError

\* An exception leaves the command: nothing catches it.
Raise(kind, pair, message) ==
    /\ pc' = "failed"
    /\ error' = <<kind, pair, message>>

\* Fault-injected variant of Validate: the length test of line 82 reads
\* "< 2", so an argument with several colons passes.
Validate_AcceptsExtraColons ==
    /\ pc = "start"
    /\ LET split_input == Split(file_and_workflow, ":")
       IN  IF Len(split_input) < 2
           THEN /\ Raise("FlyteValidationException", 0, file_and_workflow)
                /\ UNCHANGED << filename, workflow_name >>
           ELSE /\ filename' = split_input[1]
                /\ workflow_name' = split_input[2]
                /\ pc' = "load"
                /\ UNCHANGED error
    /\ UNCHANGED << cli, i, args, df_remote_location, inputs, version,
                    upload_location, wf, execution, calls >>

(***************************************************************************)
(* run, lines 81-85: split and validate the positional argument.           *)
(***************************************************************************)
Validate ==
    /\ pc = "start"
    /\ LET split_input == Split(file_and_workflow, ":")
       IN  IF Len(split_input) # 2
           THEN /\ Raise("FlyteValidationException", 0, file_and_workflow)
                /\ UNCHANGED << filename, workflow_name >>
           ELSE /\ filename' = split_input[1]
                /\ workflow_name' = split_input[2]
                /\ pc' = "load"
                /\ UNCHANGED error
    /\ UNCHANGED << cli, i, args, df_remote_location, inputs, version,
                    upload_location, wf, execution, calls >>

(***************************************************************************)
(* run, lines 86-89, and _load_naive_entity, lines 128-139: import the     *)
(* module and load the workflow object.  Either collaborator may raise.    *)
(***************************************************************************)
LoadNaiveEntity ==
    /\ pc = "load"
    /\ LET module == ModuleName(filename)
           import == <<"import_module", 0, <<module>>>>
           load == <<"load_object", 0, <<module \o <<".">> \o workflow_name>>>>
       IN  \E outcome \in {"loaded", "import_raises", "load_raises"} :
             CASE outcome = "import_raises" ->
                    /\ calls' = Append(calls, import)
                    /\ Raise("ImportError", 0, module)
               [] outcome = "load_raises" ->
                    /\ calls' = calls \o <<import, load>>
                    /\ Raise("LoadError", 0, module)
               [] outcome = "loaded" ->
                    /\ calls' = calls \o <<import, load>>
                    /\ pc' = "loaded"
                    /\ UNCHANGED error
    /\ UNCHANGED << cli, filename, workflow_name, i, args, df_remote_location,
                    inputs, version, upload_location, wf, execution >>

(***************************************************************************)
(* run, lines 123-125: click.secho(wf()).  wf is a local variable of run   *)
(* that only line 113, in the remote branch, assigns (the loaded workflow  *)
(* is wf_entity), so evaluating it here raises UnboundLocalError: the      *)
(* workflow is not called and nothing is printed.                          *)
(***************************************************************************)
RunLocal ==
    /\ pc = "loaded"
    /\ ~remote
    /\ Raise("UnboundLocalError", 0,
             <<"python message",
               "cannot access local variable 'wf' where it is not associated with a value">>)
    /\ UNCHANGED << cli, filename, workflow_name, i, args, df_remote_location,
                    inputs, version, upload_location, wf, execution, calls >>

(***************************************************************************)
(* run, lines 91-93: remote mode builds the client, which may raise; line  *)
(* 94 enters _parse_workflow_inputs with an empty args dict (line 143).    *)
(***************************************************************************)
CreateClient ==
    /\ pc = "loaded"
    /\ remote
    /\ calls' = Append(calls, <<"SynchronousFlyteClient", 0, <<>>>>)
    /\ \E returns \in BOOLEAN :
         IF returns
         THEN /\ pc' = "parse"
              /\ i' = 0
              /\ args' = EmptyMap
              /\ UNCHANGED error
         ELSE /\ Raise("ClientError", 0, <<>>)
              /\ UNCHANGED << i, args >>
    /\ UNCHANGED << cli, filename, workflow_name, df_remote_location, inputs,
                    version, upload_location, wf, execution >>

(***************************************************************************)
(* _parse_workflow_inputs, lines 142-163.  Each action below is one pass   *)
(* through the loop body from line 144 up to the next collaborator call,   *)
(* the next exception or the end of the iteration.                         *)
(***************************************************************************)
\* The loop of line 144 still has an iteration to run.
InLoop == pc = "parse" /\ i < Len(ctx_args)

\* Line 146 finds a value after the flag.
HasValue == i + 1 < Len(ctx_args)

\* Line 148 finds the argument in the interface.
Declared == Argument \in DOMAIN wf_inputs

\* Line 148: the Python type of the declared input.
PythonType == wf_inputs[Argument]

\* Line 162 and the next iteration of line 144.
Store(value) ==
    /\ args' = DictPut(args, Argument, value)
    /\ i' = i + 2
    /\ pc' = "parse"

\* Line 163: the loop is exhausted, args is returned to run (line 94).
ReturnArgs ==
    /\ pc = "parse"
    /\ i >= Len(ctx_args)
    /\ inputs' = <<"map", args>>
    /\ pc' = "hash"
    /\ UNCHANGED << cli, filename, workflow_name, i, args, df_remote_location,
                    version, upload_location, wf, execution, calls, error >>

\* Fault-injected variant of DanglingFlag: the loop stops before a flag
\* without a value (range(0, len - 1, 2)) and returns what it has.
DanglingFlag_Dropped ==
    /\ InLoop
    /\ ~HasValue
    /\ inputs' = <<"map", args>>
    /\ pc' = "hash"
    /\ UNCHANGED << cli, filename, workflow_name, i, args, df_remote_location,
                    version, upload_location, wf, execution, calls, error >>

\* Line 146 on a flag without a value: click_ctx.args[i + 1] is out of range.
DanglingFlag ==
    /\ InLoop
    /\ ~HasValue
    /\ Raise("IndexError", Pair, <<>>)
    /\ UNCHANGED << cli, filename, workflow_name, i, args, df_remote_location,
                    inputs, version, upload_location, wf, execution, calls >>

\* Fault-injected variant of LookupFails: the lookup uses dict.get, so an
\* undeclared name falls through to the else branch of line 159.
LookupFails_FallsToElse ==
    /\ InLoop
    /\ HasValue
    /\ ~Declared
    /\ Raise("ValueError", Pair, <<"Unsupported type for argument", Argument>>)
    /\ UNCHANGED << cli, filename, workflow_name, i, args, df_remote_location,
                    inputs, version, upload_location, wf, execution, calls >>

\* Line 148 on a name the interface does not declare.
LookupFails ==
    /\ InLoop
    /\ HasValue
    /\ ~Declared
    /\ Raise("KeyError", Pair, Argument)
    /\ UNCHANGED << cli, filename, workflow_name, i, args, df_remote_location,
                    inputs, version, upload_location, wf, execution, calls >>

\* Lines 150-151, 162.
ResolveText ==
    /\ InLoop
    /\ HasValue
    /\ Declared
    /\ PythonType = "str"
    /\ Store(<<"str", Value>>)
    /\ UNCHANGED << cli, filename, workflow_name, df_remote_location, inputs,
                    version, upload_location, wf, execution, calls, error >>

\* Lines 152-153, 162: int(value) returns or raises ValueError.
ResolveInteger ==
    /\ InLoop
    /\ HasValue
    /\ Declared
    /\ PythonType = "int"
    /\ IF IsIntLiteral(Value)
       THEN /\ Store(<<"int", IntOf(Value)>>)
            /\ UNCHANGED error
       ELSE /\ Raise("ValueError", Pair,
                     IF ExceedsLimit(Value)
                     THEN <<"Exceeds the limit for integer string conversion", Value>>
                     ELSE <<"invalid literal for int()", Value>>)
            /\ UNCHANGED << i, args >>
    /\ UNCHANGED << cli, filename, workflow_name, df_remote_location, inputs,
                    version, upload_location, wf, execution, calls >>

\* Line 155: create_upload_location_fn(), the partial built on line 97.
CreateDatasetUploadLocation ==
    /\ InLoop
    /\ HasValue
    /\ Declared
    /\ PythonType = "StructuredDataset"
    /\ calls' = Append(calls, <<"create_upload_location", Pair,
                                <<"flytesnacks", "development", NoSuffix>>>>)
    /\ \E returns \in BOOLEAN :
         IF returns
         THEN /\ df_remote_location' =
                     UploadLocation(CallCount("create_upload_location") + 1)
              /\ pc' = "put"
              /\ UNCHANGED error
         ELSE /\ Raise("UploadLocationError", Pair, <<>>)
              /\ UNCHANGED df_remote_location
    /\ UNCHANGED << cli, filename, workflow_name, i, args, inputs, version,
                    upload_location, wf, execution >>

\* Fault-injected variant of PutData: a failed transfer is tried a second
\* time before the exception is let through.
PutData_RetriesOnce ==
    /\ pc = "put"
    /\ calls' = Append(calls, <<"put_data", Pair,
                                <<Value, df_remote_location.signed_url>>>>)
    /\ \E returns \in BOOLEAN :
         IF returns
         THEN /\ Store(<<"StructuredDataset", df_remote_location.native_url>>)
              /\ UNCHANGED error
         ELSE IF \E c \in 1..Len(calls) : calls[c][1] = "put_data" /\ calls[c][2] = Pair
              THEN /\ Raise("PutDataError", Pair, <<>>)
                   /\ UNCHANGED << i, args >>
              ELSE UNCHANGED << pc, error, i, args >>
    /\ UNCHANGED << cli, filename, workflow_name, df_remote_location, inputs,
                    version, upload_location, wf, execution >>

\* Fault-injected variant of PutData: the value wraps the signed URL
\* instead of the native URL.
PutData_WrapsSignedUrl ==
    /\ pc = "put"
    /\ calls' = Append(calls, <<"put_data", Pair,
                                <<Value, df_remote_location.signed_url>>>>)
    /\ \E returns \in BOOLEAN :
         IF returns
         THEN /\ Store(<<"StructuredDataset", df_remote_location.signed_url>>)
              /\ UNCHANGED error
         ELSE /\ Raise("PutDataError", Pair, <<>>)
              /\ UNCHANGED << i, args >>
    /\ UNCHANGED << cli, filename, workflow_name, df_remote_location, inputs,
                    version, upload_location, wf, execution >>

\* Lines 156-158, 162: put_data, then the StructuredDataset value.
PutData ==
    /\ pc = "put"
    /\ calls' = Append(calls, <<"put_data", Pair,
                                <<Value, df_remote_location.signed_url>>>>)
    /\ \E returns \in BOOLEAN :
         IF returns
         THEN /\ Store(<<"StructuredDataset", df_remote_location.native_url>>)
              /\ UNCHANGED error
         ELSE /\ Raise("PutDataError", Pair, <<>>)
              /\ UNCHANGED << i, args >>
    /\ UNCHANGED << cli, filename, workflow_name, df_remote_location, inputs,
                    version, upload_location, wf, execution >>

\* Fault-injected variant of UnsupportedType: the else branch keeps the
\* raw string instead of raising.
UnsupportedType_KeepsRawValue ==
    /\ InLoop
    /\ HasValue
    /\ Declared
    /\ PythonType \notin {"str", "int", "StructuredDataset"}
    /\ Store(<<"str", Value>>)
    /\ UNCHANGED << cli, filename, workflow_name, df_remote_location, inputs,
                    version, upload_location, wf, execution, calls, error >>

\* Lines 159-160.
UnsupportedType ==
    /\ InLoop
    /\ HasValue
    /\ Declared
    /\ PythonType \notin {"str", "int", "StructuredDataset"}
    /\ Raise("ValueError", Pair, <<"Unsupported type for argument", Argument>>)
    /\ UNCHANGED << cli, filename, workflow_name, i, args, df_remote_location,
                    inputs, version, upload_location, wf, execution, calls >>

(***************************************************************************)
(* run, lines 99-122: hash, upload location, registration, execution.      *)
(***************************************************************************)
\* Line 99.
HashScript ==
    /\ pc = "hash"
    /\ calls' = Append(calls, <<"hash_script_file", 0, <<filename>>>>)
    /\ \E returns \in BOOLEAN :
         IF returns
         THEN /\ version' = <<"version", filename>>
              /\ pc' = "upload"
              /\ UNCHANGED error
         ELSE /\ Raise("HashError", 0, <<>>)
              /\ UNCHANGED version
    /\ UNCHANGED << cli, filename, workflow_name, i, args, df_remote_location,
                    inputs, upload_location, wf, execution >>

\* Lines 100-102.
CreateScriptUploadLocation ==
    /\ pc = "upload"
    /\ calls' = Append(calls, <<"create_upload_location", 0,
                   <<project, domain, <<"scriptmode-", version, ".tar.gz">>>>>>)
    /\ \E returns \in BOOLEAN :
         IF returns
         THEN /\ upload_location' =
                     UploadLocation(CallCount("create_upload_location") + 1)
              /\ pc' = "register"
              /\ UNCHANGED error
         ELSE /\ Raise("UploadLocationError", 0, <<>>)
              /\ UNCHANGED upload_location
    /\ UNCHANGED << cli, filename, workflow_name, i, args, df_remote_location,
                    inputs, version, wf, execution >>

\* Fault-injected variant of RegisterWorkflow: native and signed URL are
\* swapped between the serialization settings and presigned_url.
RegisterWorkflow_SwapsUrls ==
    /\ pc = "register"
    /\ calls' = Append(calls, <<"register_workflow_script_mode", 0,
                   <<WfEntity, upload_location.signed_url, version,
                     upload_location.native_url>>>>)
    /\ \E returns \in BOOLEAN :
         IF returns
         THEN /\ wf' = <<"registered", WfEntity, version>>
              /\ pc' = "execute"
              /\ UNCHANGED error
         ELSE /\ Raise("RegisterError", 0, <<>>)
              /\ UNCHANGED wf
    /\ UNCHANGED << cli, filename, workflow_name, i, args, df_remote_location,
                    inputs, version, upload_location, execution >>

\* Lines 103-118: serialization settings carry the native URL, the call
\* carries the entity, the version and the signed URL.
RegisterWorkflow ==
    /\ pc = "register"
    /\ calls' = Append(calls, <<"register_workflow_script_mode", 0,
                   <<WfEntity, upload_location.native_url, version,
                     upload_location.signed_url>>>>)
    /\ \E returns \in BOOLEAN :
         IF returns
         THEN /\ wf' = <<"registered", WfEntity, version>>
              /\ pc' = "execute"
              /\ UNCHANGED error
         ELSE /\ Raise("RegisterError", 0, <<>>)
              /\ UNCHANGED wf
    /\ UNCHANGED << cli, filename, workflow_name, i, args, df_remote_location,
                    inputs, version, upload_location, execution >>

\* Line 120.
Execute ==
    /\ pc = "execute"
    /\ calls' = Append(calls, <<"execute", 0,
                   <<wf, inputs[2], project, domain, TRUE>>>>)
    /\ \E returns \in BOOLEAN :
         IF returns
         THEN /\ execution' = <<"execution", wf>>
              /\ pc' = "print"
              /\ UNCHANGED error
         ELSE /\ Raise("ExecuteError", 0, <<>>)
              /\ UNCHANGED execution
    /\ UNCHANGED << cli, filename, workflow_name, i, args, df_remote_location,
                    inputs, version, upload_location, wf >>

\* Line 122.
PrintExecution ==
    /\ pc = "print"
    /\ calls' = Append(calls, <<"print", 0, <<execution>>>>)
    /\ pc' = "done"
    /\ UNCHANGED << cli, filename, workflow_name, i, args, df_remote_location,
                    inputs, version, upload_location, wf, execution, error >>

Next ==
    \/ Validate
    \/ LoadNaiveEntity
    \/ RunLocal
    \/ CreateClient
    \/ ReturnArgs
    \/ DanglingFlag
    \/ LookupFails
    \/ ResolveText
    \/ ResolveInteger
    \/ CreateDatasetUploadLocation
    \/ PutData
    \/ UnsupportedType
    \/ HashScript
    \/ CreateScriptUploadLocation
    \/ RegisterWorkflow
    \/ Execute
    \/ PrintExecution

Spec == Init /\ [][Next]_vars

(***************************************************************************)
(* Vocabulary of the properties: the token list seen as numbered pairs.    *)
(***************************************************************************)
NPairs == Len(ctx_args) \div 2
Pairs == 1..NPairs
PairName(k) == Slice(ctx_args[2 * k - 1], 2)
PairValue(k) == ctx_args[2 * k]
PairDeclared(k) == PairName(k) \in DOMAIN wf_inputs
PairType(k) == IF PairDeclared(k) THEN wf_inputs[PairName(k)] ELSE "undeclared"
PairNames == {PairName(k) : k \in Pairs}
DatasetPairs == {k \in Pairs : PairType(k) = "StructuredDataset"}
LastOccurrence(k) == \A m \in Pairs : m > k => PairName(m) # PairName(k)

\* Positions in calls of the calls of operation op made for pair k.
CallsAt(op, k) == {c \in 1..Len(calls) : calls[c][1] = op /\ calls[c][2] = k}
\* The position of the single call of op made for pair k.
CallAt(op, k) == CHOOSE c \in CallsAt(op, k) : TRUE
\* The descriptor returned by the create_upload_location call at position c.
DescriptorOf(c) ==
    UploadLocation(Cardinality({b \in 1..c : calls[b][1] = "create_upload_location"}))

\* _parse_workflow_inputs has returned its map to run.
Returned == inputs[1] = "map"
\* _parse_workflow_inputs raised at pair k.
FailedAt(k) == pc = "failed" /\ k > 0 /\ error[2] = k
\* _parse_workflow_inputs has ended, one way or the other.
ResolutionEnded == Returned \/ \E k \in 1..(NPairs + 1) : FailedAt(k)

Colons == Cardinality({k \in 1..Len(file_and_workflow) : file_and_workflow[k] = ":"})

(***************************************************************************)
(* Properties.                                                             *)
(***************************************************************************)

\* C1: a positional argument whose number of ':' is not exactly one ends the
\* command with a validation error before any other work (no collaborator
\* is ever called); with exactly one ':' the part before it is the file
\* name and the part after it is the workflow name.
C1_ValidationFirst ==
    /\ Colons # 1 =>
         /\ pc \in {"start", "failed"}
         /\ calls = <<>>
         /\ pc = "failed" => error = <<"FlyteValidationException", 0, file_and_workflow>>
    /\ (Colons = 1 /\ pc # "start") =>
         /\ error[1] # "FlyteValidationException"
         /\ file_and_workflow = filename \o <<":">> \o workflow_name
         /\ \A k \in 1..Len(filename) : filename[k] # ":"
         /\ \A k \in 1..Len(workflow_name) : workflow_name[k] # ":"

C1_Witness ==
    /\ Colons > 1
    /\ pc = "failed"
    /\ error[1] = "FlyteValidationException"

RemoteClientOps ==
    {"SynchronousFlyteClient", "create_upload_location",
     "register_workflow_script_mode", "execute"}

\* C2: without --remote no remote-client call is ever made, and once the
\* workflow is loaded the command calls it and prints its result: a local
\* run whose workflow loaded never ends in an exception raised before the
\* workflow was called, and a finished run has called the workflow and
\* printed what it returned.
C2_LocalRun ==
    ~remote =>
      /\ \A c \in 1..Len(calls) : calls[c][1] \notin RemoteClientOps
      /\ (pc = "failed" /\ error[1] \notin {"FlyteValidationException",
                                            "ImportError", "LoadError"}) =>
            /\ Len(calls) = 3
            /\ calls[3] = <<"wf_entity", 0, <<WfEntity>>>>
      /\ pc = "done" =>
            /\ Len(calls) = 4
            /\ calls[3] = <<"wf_entity", 0, <<WfEntity>>>>
            /\ calls[4] = <<"secho", 0, <<(<<"result", WfEntity>>)>>>>

\* The token lists of C3: even length, every name declared as text or
\* integer, every integer value a valid literal.
TextIntegerOnly ==
    /\ Len(ctx_args) % 2 = 0
    /\ \A k \in Pairs :
         /\ PairType(k) \in {"str", "int"}
         /\ PairType(k) = "int" => IsIntLiteral(PairValue(k))

\* What resolving pair k on its own yields for its name.
Converted(k) ==
    IF PairType(k) = "str" THEN <<"str", PairValue(k)>>
    ELSE <<"int", IntOf(PairValue(k))>>

NoStaging ==
    \A c \in 1..Len(calls) :
        ~(calls[c][1] \in {"create_upload_location", "put_data"} /\ calls[c][2] > 0)

\* C3 as stated: on a text/integer token list the map returned has exactly
\* the names of the list as keys and maps the name of EVERY pair to that
\* pair's own conversion, so that it does not depend on the order of the
\* pairs; nothing is staged.
C3_EveryPairOnItsOwn ==
    (TextIntegerOnly /\ Returned) =>
       /\ DOMAIN inputs[2] = PairNames
       /\ \A k \in Pairs : inputs[2][PairName(k)] = Converted(k)
       /\ NoStaging

\* C3 amended: on a text/integer token list resolution never fails; the map
\* returned has exactly the names of the list as keys and maps each name to
\* the conversion of the value of its LAST occurrence (text unchanged,
\* integer parsed, e.g. "42" to 42 and "-1_0" to -10); nothing is staged.
\* With pairwise distinct names every pair is a last occurrence, and the map
\* is the union of the pairs resolved on their own, whatever their order.
C3_LastOccurrenceWins ==
    TextIntegerOnly =>
       /\ \A k \in 1..(NPairs + 1) : ~FailedAt(k)
       /\ NoStaging
       /\ Returned =>
            /\ DOMAIN inputs[2] = PairNames
            /\ \A k \in Pairs :
                 LastOccurrence(k) => inputs[2][PairName(k)] = Converted(k)
            /\ \A k \in Pairs :
                 (LastOccurrence(k) /\ PairType(k) = "str") =>
                     inputs[2][PairName(k)][2] = ctx_args[2 * k]
            /\ \A k \in Pairs :
                 (LastOccurrence(k) /\ PairName(k) = <<"n">>) =>
                     /\ PairValue(k) = <<"4", "2">> => inputs[2][<<"n">>] = <<"int", 42>>
                     /\ PairValue(k) = <<"-", "1", "_", "0">> =>
                            inputs[2][<<"n">>] = <<"int", 0 - 10>>

C3_Witness ==
    /\ TextIntegerOnly
    /\ Returned
    /\ NPairs = 2
    /\ PairName(1) = PairName(2)
    /\ PairType(1) = "int"
    /\ PairValue(1) # PairValue(2)
    /\ inputs[2][PairName(2)] = <<"int", 42>>

\* The descriptor requested for dataset pair k.
Acquired(k) == DescriptorOf(CallAt("create_upload_location", k))

\* C4: the value stored for a structured-dataset pair, every occurrence of
\* a repeated name included, wraps the native URL of the descriptor
\* requested for that pair, never the local path or the signed URL (seen in
\* args as soon as the pair is resolved, i = 2k, before any later pair is
\* touched); when resolution returns, each structured-dataset pair has
\* exactly one upload-location request and one put_data call, in that order,
\* and no other pair has any; put_data got the pair's raw value and the
\* signed URL of the descriptor requested for that pair; the map returned
\* holds, under each dataset name, the value stored for its last pair.
C4_OneStagingPerDataset ==
    /\ \A k \in DatasetPairs :
         i = 2 * k =>
            /\ Cardinality(CallsAt("create_upload_location", k)) = 1
            /\ args[PairName(k)] = <<"StructuredDataset", Acquired(k).native_url>>
            /\ args[PairName(k)][2] # PairValue(k)
            /\ args[PairName(k)][2] # Acquired(k).signed_url
            /\ Cardinality(CallsAt("put_data", k)) = 1
            /\ calls[CallAt("put_data", k)][3] =
                   <<PairValue(k), Acquired(k).signed_url>>
    /\ Returned =>
         /\ \A k \in Pairs :
              /\ Cardinality(CallsAt("create_upload_location", k)) =
                     (IF k \in DatasetPairs THEN 1 ELSE 0)
              /\ Cardinality(CallsAt("put_data", k)) =
                     (IF k \in DatasetPairs THEN 1 ELSE 0)
         /\ Cardinality({c \in 1..Len(calls) : calls[c][1] = "put_data"}) =
                Cardinality(DatasetPairs)
         /\ Cardinality({c \in 1..Len(calls) :
                            calls[c][1] = "create_upload_location" /\ calls[c][2] > 0}) =
                Cardinality(DatasetPairs)
         /\ \A k \in DatasetPairs :
              /\ CallAt("create_upload_location", k) < CallAt("put_data", k)
              /\ calls[CallAt("put_data", k)][3] =
                     <<PairValue(k), Acquired(k).signed_url>>
              /\ \E m \in DatasetPairs :
                   /\ PairName(m) = PairName(k)
                   /\ LastOccurrence(m)
                   /\ inputs[2][PairName(k)] =
                          <<"StructuredDataset", Acquired(m).native_url>>

C4_Witness ==
    /\ Returned
    /\ Cardinality(DatasetPairs) = 2
    /\ inputs[2][<<"d", "f">>] = <<"StructuredDataset", <<"native_url", "2">>>>

Undeclared == {k \in Pairs : ~PairDeclared(k)}
Unsupported ==
    {k \in Pairs : PairDeclared(k)
                   /\ PairType(k) \notin {"str", "int", "StructuredDataset"}}
NoCallFor(k) == \A c \in 1..Len(calls) : calls[c][2] # k

\* C5 as stated: whenever some pair names an undeclared input, resolution
\* ends with a KeyError (a Python LookupError).
C5_AlwaysLookupError ==
    (ResolutionEnded /\ Undeclared # {}) =>
        /\ ~Returned
        /\ error[1] = "KeyError"

\* C5 amended: if some pair names an undeclared input, resolution never
\* returns a map and never gets past the first such pair; it fails with a
\* KeyError naming that pair's argument unless an earlier pair has already
\* failed, and for the undeclared pair nothing is converted, requested or
\* transferred, whatever its raw value.
C5_LookupErrorAtFirstUndeclared ==
    \A k \in Undeclared :
        /\ ~Returned
        /\ pc \in {"parse", "put", "failed"} => i <= 2 * (k - 1)
        /\ NoCallFor(k)
        /\ FailedAt(k) =>
             /\ error = <<"KeyError", k, PairName(k)>>
             /\ i = 2 * (k - 1)
             /\ \A m \in 1..(k - 1) : PairName(m) \in DOMAIN args
             /\ PairName(k) \notin DOMAIN args

C5_Witness ==
    /\ FailedAt(2)
    /\ error[1] = "KeyError"
    /\ PairType(1) = "StructuredDataset"
    /\ PairValue(2) = <<"4", "2">>

\* C6 as stated: whenever some pair names an input of an unsupported type,
\* resolution ends with the ValueError "Unsupported type for argument"
\* naming that pair's argument.
C6_AlwaysUnsupportedError ==
    (ResolutionEnded /\ Unsupported # {}) =>
        /\ ~Returned
        /\ \A k \in Unsupported :
             error[3] = <<"Unsupported type for argument", PairName(k)>>

\* C6 amended: if some pair names an input whose type is neither str, int
\* nor StructuredDataset, resolution never returns a map and never gets past
\* the first such pair; it fails with a ValueError whose message names that
\* pair's argument unless an earlier pair has already failed, and nothing is
\* requested or transferred for that pair.
C6_UnsupportedErrorAtFirstUnsupported ==
    \A k \in Unsupported :
        /\ ~Returned
        /\ pc \in {"parse", "put", "failed"} => i <= 2 * (k - 1)
        /\ NoCallFor(k)
        /\ FailedAt(k) =>
             /\ error = <<"ValueError", k,
                          <<"Unsupported type for argument", PairName(k)>>>>
             /\ i = 2 * (k - 1)
             /\ PairName(k) \notin DOMAIN args

C6_Witness ==
    /\ FailedAt(2)
    /\ 2 \in Unsupported
    /\ error[3] = <<"Unsupported type for argument", <<"f">>>>
    /\ PairType(1) = "StructuredDataset"

LaterStages ==
    {"hash_script_file", "register_workflow_script_mode", "execute", "print"}

\* C7: an exception raised at the k-th pair (or dangling flag) ends the
\* command there: no action is enabled any more, no collaborator was called
\* twice for one pair, the staging calls of the dataset pairs before k are
\* all still in the history and nothing was called to undo them, no call
\* belongs to a pair after k, the loop index rests on k, run got no map, and
\* no hashing, upload-location request for the script, registration,
\* execution or printing follows.
C7_FailurePropagates ==
    /\ \A c, b \in 1..Len(calls) :
         (c # b /\ calls[c][2] > 0 /\ calls[c][2] = calls[b][2]) =>
             calls[c][1] # calls[b][1]
    /\ error # NoError => pc = "failed"
    /\ pc = "failed" => ~ENABLED Next
    /\ \A k \in 1..(NPairs + 1) :
         FailedAt(k) =>
            /\ i = 2 * (k - 1)
            /\ inputs = <<"none">>
            /\ DOMAIN args = {PairName(m) : m \in 1..(k - 1)}
            /\ \A c \in 1..Len(calls) :
                 /\ calls[c][2] <= k
                 /\ calls[c][1] \notin LaterStages
                 /\ calls[c][2] > 0 =>
                        calls[c][1] \in {"create_upload_location", "put_data"}
                 /\ calls[c][1] = "create_upload_location" => calls[c][2] > 0
            /\ \A m \in 1..(k - 1) :
                 /\ Cardinality(CallsAt("create_upload_location", m)) =
                        (IF m \in DatasetPairs THEN 1 ELSE 0)
                 /\ Cardinality(CallsAt("put_data", m)) =
                        (IF m \in DatasetPairs THEN 1 ELSE 0)
            /\ error[1] = "PutDataError" =>
                 Cardinality(CallsAt("create_upload_location", k)) = 1

C7_Witness ==
    /\ FailedAt(2)
    /\ error[1] = "PutDataError"
    /\ 1 \in DatasetPairs
    /\ Len(calls) = 7

\* The staging calls of the dataset pairs k, k+1, ..., in token-list order.
RECURSIVE StagingOrder(_)
StagingOrder(k) ==
    IF k > NPairs THEN <<>>
    ELSE (IF k \in DatasetPairs
          THEN << <<"create_upload_location", k>>, <<"put_data", k>> >>
          ELSE <<>>) \o StagingOrder(k + 1)

\* The collaborator calls of a remote run that nothing interrupts.
RemoteOrder ==
    << <<"import_module", 0>>, <<"load_object", 0>>,
       <<"SynchronousFlyteClient", 0>> >>
    \o StagingOrder(1)
    \o << <<"hash_script_file", 0>>, <<"create_upload_location", 0>>,
          <<"register_workflow_script_mode", 0>>, <<"execute", 0>>,
          <<"print", 0>> >>

\* C8: the calls of a remote run are a prefix of: per dataset pair in
\* token-list order its upload-location request then its transfer, then
\* hashing, the script's upload-location request, registration with the
\* hashed version and that location's signed URL, execution with exactly the
\* map resolution returned, printing of the execution; a finished run made
\* all of them, and execution is never called before resolution has
\* returned and registration has succeeded.
C8_RemoteCallOrder ==
    remote =>
      /\ Len(calls) <= Len(RemoteOrder)
      /\ \A c \in 1..Len(calls) : <<calls[c][1], calls[c][2]>> = RemoteOrder[c]
      /\ pc = "done" => Len(calls) = Len(RemoteOrder)
      /\ \A c \in 1..Len(calls) :
           /\ calls[c][1] = "hash_script_file" =>
                /\ Returned /\ i >= Len(ctx_args) /\ inputs[2] = args
                /\ calls[c][3] = <<filename>>
           /\ (calls[c][1] = "create_upload_location" /\ calls[c][2] = 0) =>
                /\ version = <<"version", filename>>
                /\ calls[c][3][3] = <<"scriptmode-", version, ".tar.gz">>
           /\ calls[c][1] = "register_workflow_script_mode" =>
                LET location == DescriptorOf(CallAt("create_upload_location", 0))
                IN  calls[c][3] = <<WfEntity, location.native_url, version,
                                    location.signed_url>>
           /\ calls[c][1] = "execute" =>
                /\ Returned
                /\ wf = <<"registered", WfEntity, version>>
                /\ CallsAt("register_workflow_script_mode", 0) # {}
                /\ calls[c][3] = <<wf, inputs[2], project, domain, TRUE>>
                /\ DOMAIN calls[c][3][2] = PairNames
           /\ calls[c][1] = "print" =>
                /\ execution = <<"execution", wf>>
                /\ calls[c][3] = <<execution>>

C8_Witness ==
    /\ remote
    /\ pc = "done"
    /\ Cardinality(DatasetPairs) = 2
    /\ Len(calls) = 12

\* C9: every upload location of a remote run, the script's and each
\* dataset's, is requested for the project and domain of -p and -d.
C9_UploadLocationsInProjectDomain ==
    \A c \in 1..Len(calls) :
        calls[c][1] = "create_upload_location" =>
            /\ calls[c][3][1] = project
            /\ calls[c][3][2] = domain

\* C10: an odd-length token list never yields a map; line 146 raises
\* IndexError at the dangling flag, whether or not the interface declares
\* it (so before the lookup of line 148), after every complete pair has been
\* resolved and staged; args holds the names of the complete pairs only.
C10_DanglingFlagFails ==
    Len(ctx_args) % 2 = 1 =>
       /\ ~Returned
       /\ pc \in {"parse", "put", "failed"} => i < Len(ctx_args)
       /\ \A c \in 1..Len(calls) : calls[c][2] <= NPairs
       /\ FailedAt(NPairs + 1) =>
            /\ error = <<"IndexError", NPairs + 1, <<>>>>
            /\ i = Len(ctx_args) - 1
            /\ DOMAIN args = PairNames
            /\ \A k \in Pairs :
                 /\ Cardinality(CallsAt("create_upload_location", k)) =
                        (IF k \in DatasetPairs THEN 1 ELSE 0)
                 /\ Cardinality(CallsAt("put_data", k)) =
                        (IF k \in DatasetPairs THEN 1 ELSE 0)
       /\ (pc = "parse" /\ i = Len(ctx_args) - 1) =>
            (ENABLED DanglingFlag /\ ~ENABLED LookupFails /\ ~ENABLED ReturnArgs)

C10_Witness ==
    /\ Len(ctx_args) = 3
    /\ FailedAt(2)
    /\ error[1] = "IndexError"
    /\ 1 \in DatasetPairs
    /\ Slice(ctx_args[3], 2) \notin DOMAIN wf_inputs
    /\ Len(calls) = 5

====
